---------------------------- MODULE Spec2Model ----------------------------
(***************************************************************************)
(* Model of midi_converter/tesla_wav_simulator.py: the ArduinoTimerSim     *)
(* PWM timer, generate_logic_signal (the event-driven merger of the two    *)
(* timers into coil pulses), envelope and the sampling loop of             *)
(* generate_wav.                                                           *)
(*                                                                         *)
(* Time.  The program keeps times as floating-point seconds.  The model    *)
(* keeps them as integers counting 1/TimeRes of one ARDUINO_FREQ clock     *)
(* cycle, so that an instant between two clock cycles exists and the       *)
(* rounding in update() is modelled and not assumed away.  Floating-point  *)
(* arithmetic is modelled as exact arithmetic; Python's round() is         *)
(* round-half-to-even and int() truncates toward zero.  Where round() is   *)
(* applied to a difference of accumulated times (update), the operand      *)
(* carries floating-point error, and at an exact tie that error decides    *)
(* the direction: there the model takes either neighbour.                  *)
(***************************************************************************)
EXTENDS Integers, Sequences, FiniteSets, TLC

VARIABLES
    timers,               \* ArduinoTimers: <<Timer1, Timer2>> (module globals)
    call,                 \* the last call made on a timer by the timer driver
    nCalls,               \* number of calls the timer driver has made
    pc,                   \* position in generate_wav / generate_logic_signal
    cmds,                 \* the command list of a replayed conversion
    cmd,                  \* the command of the current for-iteration
    nCmds,                \* number of commands taken from the stream
    cmd_t,                \* absolute time of the current command
    last_cmd_t,           \* absolute time of the previous command
    current_t,            \* the cursor of generate_logic_signal
    current_tempo,        \* microseconds per beat
    current_state,        \* the composite state generate_logic_signal tracks
    current_pulse_start,  \* start of the pulse being built
    pulses,               \* the pulses appended so far
    ticks_per_beat,       \* mid.ticks_per_beat
    run,                  \* which call of generate_logic_signal is running
    first_pulses,         \* what the first call returned
    wav_error,            \* exception raised in generate_wav, "none" if none
    sample_t,             \* the sample time of generate_wav's sampling loop
    pulse_idx,            \* index of the current pulse in the sampling loop
    wav_volume            \* volume of generate_wav: what envelope returned last

vars == <<timers, call, nCalls, pc, cmds, cmd, nCmds, cmd_t, last_cmd_t,
          current_t, current_tempo, current_state, current_pulse_start,
          pulses, ticks_per_beat, run, first_pulses, wav_error,
          sample_t, pulse_idx, wav_volume>>

wavVars == <<sample_t, pulse_idx, wav_volume>>

timerVars == <<timers, call, nCalls>>

signalVars == <<pc, cmds, cmd, nCmds, cmd_t, last_cmd_t, current_t,
                current_tempo, current_state, current_pulse_start, pulses,
                ticks_per_beat, run, first_pulses, wav_error, wavVars>>

---------------------------------------------------------------------------
(* Bounds of the model. *)

\* Time units per clock cycle of ARDUINO_FREQ.
TimeRes == 2

\* Calls the timer driver makes on the timers.
MaxCalls == 4

\* Commands in the event stream of one conversion.
MaxCmds == 4

\* Commands in the event stream of a conversion that is run twice.
MaxReplayCmds == 2

---------------------------------------------------------------------------
(* Program constants. *)

COIL_FREQ == 250000

MAX_HALF_CYCLES == 10

ARDUINO_FREQ == 16000000

\* 1.0 / (2 * COIL_FREQ) seconds, in time units.
HALF_CYCLE_LENGTH == (ARDUINO_FREQ * TimeRes) \div (2 * COIL_FREQ)

MAX_PULSE_LENGTH == MAX_HALF_CYCLES * HALF_CYCLE_LENGTH

---------------------------------------------------------------------------
(* Arithmetic of the Python built-ins. *)

Min(a, b) == IF a < b THEN a ELSE b

Abs(a) == IF a < 0 THEN -a ELSE a

\* int(round(num / den)) for den > 0: round half to even, symmetric in sign.
PyRound(num, den) ==
    LET a == Abs(num)
        q == a \div den
        r == a % den
        m == IF 2 * r > den \/ (2 * r = den /\ q % 2 = 1) THEN q + 1 ELSE q
    IN  IF num < 0 THEN -m ELSE m

\* int(round(num / den)) for den > 0 where num / den carries floating-point
\* error: as PyRound, but an exact tie goes up (in magnitude) when up holds
\* and down otherwise.
PyRoundNoisy(num, den, up) ==
    LET a == Abs(num)
        q == a \div den
        r == a % den
        m == IF 2 * r > den \/ (2 * r = den /\ up) THEN q + 1 ELSE q
    IN  IF num < 0 THEN -m ELSE m

\* int(a / b) for b > 0: truncation toward zero.
PyInt(a, b) == IF a < 0 THEN -((-a) \div b) ELSE a \div b

Range(f) == {f[i] : i \in DOMAIN f}

Last(q) == q[Len(q)]

---------------------------------------------------------------------------
(* get_midi_freq.                                                          *)
(* ARDUINO_FREQ / get_midi_freq(note) for note = 0..127, in thousandths of *)
(* a clock cycle: the length of one cycle of the note.  The table holds    *)
(* the value the program's floating-point expression                       *)
(* 440.0 * 2.0 ** ((note - 69) / 12) gives; every comparison and rounding  *)
(* below agrees with the program's for all 128 notes and all prescalers.   *)
(* (Frequencies themselves, and their products with max * prescale, do not *)
(* fit TLC's 32-bit integers at a resolution that keeps the roundings.)    *)

NotePeriodTable ==
 << 1956995294, 1847157588, 1743484599, 1645630327, 1553268194, 1466089949, 1383804643, 1306137656,
    1232829783, 1163636364, 1098326473, 1036682145, 978497647, 923578794, 871742299, 822815164,
    776634097, 733044974, 691902321, 653068828, 616414891, 581818182, 549163236, 518341072,
    489248823, 461789397, 435871150, 411407582, 388317048, 366522487, 345951161, 326534414,
    308207446, 290909091, 274581618, 259170536, 244624412, 230894698, 217935575, 205703791,
    194158524, 183261244, 172975580, 163267207, 154103723, 145454545, 137290809, 129585268,
    122312206, 115447349, 108967787, 102851895, 97079262, 91630622, 86487790, 81633604,
    77051861, 72727273, 68645405, 64792634, 61156103, 57723675, 54483894, 51425948,
    48539631, 45815311, 43243895, 40816802, 38525931, 36363636, 34322702, 32396317,
    30578051, 28861837, 27241947, 25712974, 24269816, 22907655, 21621948, 20408401,
    19262965, 18181818, 17161351, 16198159, 15289026, 14430919, 13620973, 12856487,
    12134908, 11453828, 10810974, 10204200, 9631483, 9090909, 8580676, 8099079,
    7644513, 7215459, 6810487, 6428243, 6067454, 5726914, 5405487, 5102100,
    4815741, 4545455, 4290338, 4049540, 3822256, 3607730, 3405243, 3214122,
    3033727, 2863457, 2702743, 2551050, 2407871, 2272727, 2145169, 2024770,
    1911128, 1803865, 1702622, 1607061, 1516863, 1431728, 1351372, 1275525 >>

\* Thousandths in NotePeriodTable.
PeriodScale == 1000

\* ARDUINO_FREQ / get_midi_freq(note), in 1/PeriodScale clock cycles.
get_midi_period(note) == NotePeriodTable[note + 1]

\* freq < ARDUINO_FREQ / x for a positive integer x, i.e. period > x.
FreqBelow(note, x) == (get_midi_period(note) + PeriodScale - 1) \div PeriodScale > x

\* ARDUINO_FREQ / x < freq for a positive integer x, i.e. period < x.
FreqAbove(note, x) == get_midi_period(note) \div PeriodScale < x

---------------------------------------------------------------------------
(* class ArduinoTimerSim.  A timer is a record of the object's fields;     *)
(* min_freq = ARDUINO_FREQ / (prescale_values[-1] * top) is kept as its    *)
(* denominator min_freq_div.                                               *)

ArduinoTimerSim(max, prescale_values) ==
    [max             |-> max,
     prescale_values |-> prescale_values,
     prescale        |-> 1,
     top             |-> max,
     min_freq_div    |-> prescale_values[Len(prescale_values)] * max,
     duty            |-> 0,
     current         |-> 0,
     current_t       |-> 0]

Timer1 == ArduinoTimerSim(65536, <<1, 8, 64, 256, 1024>>)

Timer2 == ArduinoTimerSim(256, <<1, 8, 32, 64, 128, 256, 1024>>)

ArduinoTimers == <<Timer1, Timer2>>

\* tgt_freq < self.min_freq
NoteDropped(tm, note) == FreqBelow(note, tm.min_freq_div)

\* A search that takes the last prescaler that is large enough, not the first.
SelectPrescale_last(tm, note) ==
    LET ok == {i \in DOMAIN tm.prescale_values :
                  FreqAbove(note, tm.max * tm.prescale_values[i])}
        last == CHOOSE i \in ok : \A j \in ok : i >= j
    IN  tm.prescale_values[last]

\* next(v for v in self.prescale_values if ARDUINO_FREQ / (self.max * v) < tgt_freq)
SelectPrescale(tm, note) ==
    LET ok == {i \in DOMAIN tm.prescale_values :
                  FreqAbove(note, tm.max * tm.prescale_values[i])}
        first == CHOOSE i \in ok : \A j \in ok : i <= j
    IN  tm.prescale_values[first]

\* int(round(ARDUINO_FREQ / (self.prescale * tgt_freq)))
NoteTop(prescale, note) == PyRound(get_midi_period(note), PeriodScale * prescale)

\* The duty without the cap of the intensity at MAX_HALF_CYCLES.
NoteDuty_uncapped(prescale, volume) ==
    LET d == PyRound(volume * HALF_CYCLE_LENGTH, TimeRes * prescale)
    IN  IF d = 0 THEN 1 ELSE d

\* int(round(min(volume, MAX_HALF_CYCLES) * HALF_CYCLE_LENGTH * ARDUINO_FREQ / prescale)),
\* then 1 if that is 0.
NoteDuty(prescale, volume) ==
    LET d == PyRound(Min(volume, MAX_HALF_CYCLES) * HALF_CYCLE_LENGTH,
                     TimeRes * prescale)
    IN  IF d = 0 THEN 1 ELSE d

\* The counter after the period changed to top.
ResetCounter(current, top) == IF current >= top THEN 0 ELSE current

\* set_note without the reset of a counter that is past the new period.
set_note_keeps_counter(tm, note, volume) ==
    IF NoteDropped(tm, note)
    THEN tm
    ELSE LET p == SelectPrescale(tm, note)
         IN  [tm EXCEPT !.prescale = p,
                        !.top = NoteTop(p, note),
                        !.duty = NoteDuty(p, volume)]

\* set_note that silences the timer when it drops the note.
set_note_drop_silences(tm, note, volume) ==
    IF NoteDropped(tm, note)
    THEN [tm EXCEPT !.duty = 0]
    ELSE LET p == SelectPrescale(tm, note)
             top == NoteTop(p, note)
         IN  [tm EXCEPT !.prescale = p,
                        !.top = top,
                        !.current = ResetCounter(tm.current, top),
                        !.duty = NoteDuty(p, volume)]

set_note(tm, note, volume) ==
    IF NoteDropped(tm, note)
    THEN tm
    ELSE LET p == SelectPrescale(tm, note)
             top == NoteTop(p, note)
         IN  [tm EXCEPT !.prescale = p,
                        !.top = top,
                        !.current = ResetCounter(tm.current, top),
                        !.duty = NoteDuty(p, volume)]

set_off(tm) == [tm EXCEPT !.duty = 0]

\* ArduinoTimerSim.current_state() (current_state itself names the local of
\* generate_logic_signal below).
timer_state(tm) == tm.current < tm.duty

\* next_change with the sign of the remaining time wrong.
next_change_behind(tm) ==
    IF tm.current < tm.duty
    THEN tm.current_t - (tm.duty - tm.current) * tm.prescale * TimeRes
    ELSE tm.current_t - (tm.top - tm.current) * tm.prescale * TimeRes

\* next_change that knows the end of the period only, not the duty boundary.
next_change_period_only(tm) ==
    tm.current_t + (tm.top - tm.current) * tm.prescale * TimeRes

next_change(tm) ==
    IF timer_state(tm)
    THEN tm.current_t + (tm.duty - tm.current) * tm.prescale * TimeRes
    ELSE tm.current_t + (tm.top - tm.current) * tm.prescale * TimeRes

\* up: the direction round() takes if the elapsed time is an exact tie.
update(tm, t, up) ==
    LET ticks == PyRoundNoisy(t - tm.current_t, TimeRes * tm.prescale, up)
        c == tm.current + ticks
    IN  [tm EXCEPT !.current = c - tm.top * PyInt(c, tm.top),
                   !.current_t = t]


---------------------------------------------------------------------------
(* Inputs. *)

\* Pitches: 34 is below Timer2's minimum frequency and 35 just above it;
\* 127 is the highest pitch.
Notes == {34, 35, 127}

\* Intensities: 0 rounds to a zero duty, 12 is above MAX_HALF_CYCLES.
Volumes == {0, 12}

\* Pitches and intensities the timer driver sets: those above, and pitches
\* that select further prescalers (0: 64 on Timer1; 69: 256 and 100: 32 on
\* Timer2), and intensities below and at MAX_HALF_CYCLES.
DriverNotes == Notes \cup {0, 69, 100}

DriverVolumes == Volumes \cup {3, 10}

\* How far the timer driver moves the time of an update forward: not at all,
\* by less than a clock cycle, by many periods of a fast note.
UpdateSteps == {0, 1, 2000 * TimeRes}

\* How far the timer driver moves the time of an update backward.
BackSteps == {1, 700 * TimeRes}

\* The times update is called with: steps from last_sync_time, the instant
\* next_change() predicts, and the instant one time unit before it.
UpdateTimes(tm) ==
    {tm.current_t + d : d \in UpdateSteps} \cup {next_change(tm), next_change(tm) - 1}

NoCall(i) == [op |-> "new", timer |-> i, note |-> 0, volume |-> 0, t |-> 0,
              before |-> ArduinoTimers[i], raised |-> FALSE]

NoCmd == [type |-> "none", time |-> 0, tempo |-> 0, timer |-> 0, note |-> 0, volume |-> 0]

\* What envelope returns, or how it ends: an int, None (no branch
\* returns), or the TypeError of None * float.
IntValue(v) == [type |-> "int", value |-> v]

NoneValue == [type |-> "None", value |-> 0]

TypeErrorRaised == [type |-> "TypeError", value |-> 0]

\* generate_wav's sampling locals before the sampling loop is reached.
WavEntry ==
    /\ sample_t = 0
    /\ pulse_idx = 0
    /\ wav_volume = IntValue(0)

\* The locals of generate_logic_signal at its entry (lines 82-87, 103).
SignalEntry ==
    /\ cmd = NoCmd
    /\ nCmds = 0
    /\ cmd_t = 0
    /\ last_cmd_t = 0
    /\ current_t = 0
    /\ current_tempo = 0
    /\ current_state = TRUE
    /\ current_pulse_start = 0
    /\ pulses = << >>

---------------------------------------------------------------------------
(* The timer driver: one ArduinoTimerSim under any sequence of calls.  call *)
(* records the call just made, the timer as it was before the call, and     *)
(* whether the call raised (no method of ArduinoTimerSim has a raise).      *)

TimerInit ==
    /\ timers = ArduinoTimers
    /\ \E i \in 1..2 : call = NoCall(i)
    /\ nCalls = 0
    /\ pc = "timer"
    /\ cmds = << >>
    /\ SignalEntry
    /\ ticks_per_beat = 0
    /\ run = 0
    /\ first_pulses = << >>
    /\ wav_error = "none"
    /\ WavEntry

Called(op, note, volume, t, after) ==
    /\ nCalls < MaxCalls
    /\ nCalls' = nCalls + 1
    /\ timers' = [timers EXCEPT ![call.timer] = after]
    /\ call' = [op |-> op, timer |-> call.timer, note |-> note, volume |-> volume,
                t |-> t, before |-> timers[call.timer], raised |-> FALSE]
    /\ UNCHANGED signalVars

CallSetNote ==
    \E note \in DriverNotes, volume \in DriverVolumes :
        Called("set_note", note, volume, 0, set_note(timers[call.timer], note, volume))

CallSetOff == Called("set_off", 0, 0, 0, set_off(timers[call.timer]))

CallUpdate ==
    \E t \in UpdateTimes(timers[call.timer]), up \in BOOLEAN :
        /\ t >= timers[call.timer].current_t
        /\ Called("update", 0, 0, t, update(timers[call.timer], t, up))

CallUpdateBack ==
    \E d \in BackSteps, up \in BOOLEAN :
        LET t == timers[call.timer].current_t - d
        IN  /\ t >= 0
            /\ Called("update", 0, 0, t, update(timers[call.timer], t, up))

TimerNext == CallSetNote \/ CallSetOff \/ CallUpdate

\* Calls with non-decreasing update times.
SpecTimer == TimerInit /\ [][TimerNext]_vars

TimerBackNext == CallSetNote \/ CallSetOff \/ CallUpdate \/ CallUpdateBack

\* Calls with any update times.
SpecTimerBack == TimerInit /\ [][TimerBackNext]_vars

---------------------------------------------------------------------------
(* set_note on its own: one call on a new timer, for every MIDI pitch and   *)
(* for every intensity up to past MAX_HALF_CYCLES.                          *)

\* MIDI note numbers.
AllNotes == 0..127

\* Intensities from 0 to above MAX_HALF_CYCLES.
AllVolumes == 0..(MAX_HALF_CYCLES + 2)

NotesInit ==
    /\ timers = ArduinoTimers
    /\ \E i \in 1..2, note \in AllNotes, volume \in AllVolumes :
          call = [NoCall(i) EXCEPT !.note = note, !.volume = volume]
    /\ nCalls = 0
    /\ pc = "timer"
    /\ cmds = << >>
    /\ SignalEntry
    /\ ticks_per_beat = 0
    /\ run = 0
    /\ first_pulses = << >>
    /\ wav_error = "none"
    /\ WavEntry

\* set_note(call.note, call.volume) on the new timer.
SetDrawnNote ==
    /\ call.op = "new"
    /\ Called("set_note", call.note, call.volume, 0,
              set_note(timers[call.timer], call.note, call.volume))

SpecNotes == NotesInit /\ [][SetDrawnNote]_vars

---------------------------------------------------------------------------
(* generate_logic_signal.                                                  *)

\* cmd.time of a command, in MIDI ticks: 0 is a command sharing the
\* timestamp of the one before.
CmdTimes == {0, 1, 100}

\* cmd.tempo, microseconds per beat.
Tempos == {25}

\* mid.ticks_per_beat.
TicksPerBeat == {32}

\* What get_midi_commands yields.
Commands ==
    {[type |-> ty, time |-> tm, tempo |-> tp, timer |-> 0, note |-> 0, volume |-> 0] :
        ty \in {"begin_program", "set_tempo"}, tm \in CmdTimes, tp \in Tempos}
    \cup
    {[type |-> "note_off", time |-> tm, tempo |-> 0, timer |-> i, note |-> 0, volume |-> 0] :
        tm \in CmdTimes, i \in 1..2}
    \cup
    {[type |-> "both_off", time |-> tm, tempo |-> 0, timer |-> 0, note |-> 0, volume |-> 0] :
        tm \in CmdTimes}
    \cup
    {[type |-> "note_on", time |-> tm, tempo |-> 0, timer |-> i, note |-> n, volume |-> v] :
        tm \in CmdTimes, i \in 1..2, n \in Notes, v \in Volumes}

\* float(cmd.time * current_tempo) / (1e6 * mid.ticks_per_beat) seconds, as a
\* numerator in time units over the denominator ticks_per_beat.
CmdDeltaNum(c, tempo) == c.time * tempo * (ARDUINO_FREQ \div 1000000) * TimeRes

\* The command times the model's time grid holds exactly.
OnGrid(c, tempo, tpb) == CmdDeltaNum(c, tempo) % tpb = 0

\* min(current_pulse_start + MAX_PULSE_LENGTH, current_t)
pulse_end_uncapped(start, t) == t

pulse_end(start, t) == Min(start + MAX_PULSE_LENGTH, t)

\* Timer1.current_state() or Timer2.current_state()
Energized(tms) == timer_state(tms[1]) \/ timer_state(tms[2])

\* update_state(t), called with the timers as tms; ups[i] is the direction
\* of a tie in the update of timer i.
update_state(tms, t, ups) ==
    LET upd == <<update(tms[1], t, ups[1]), update(tms[2], t, ups[2])>>
        new_state == Energized(upd)
    IN  /\ current_t' = t
        /\ timers' = upd
        /\ IF new_state # current_state
           THEN /\ IF new_state
                   THEN /\ current_pulse_start' = t
                        /\ pulses' = pulses
                   ELSE /\ pulses' = Append(pulses,
                                <<current_pulse_start, pulse_end(current_pulse_start, t)>>)
                        /\ current_pulse_start' = current_pulse_start
                /\ current_state' = new_state
           ELSE UNCHANGED <<current_pulse_start, pulses, current_state>>

\* Lines 105-107: the for loop takes command c.
TakeCmd(c) ==
    /\ pc = "for"
    /\ OnGrid(c, current_tempo, ticks_per_beat)
    /\ cmd' = c
    /\ nCmds' = nCmds + 1
    /\ cmd_t' = last_cmd_t + CmdDeltaNum(c, current_tempo) \div ticks_per_beat
    /\ last_cmd_t' = cmd_t'
    /\ pc' = "while"
    /\ UNCHANGED <<timerVars, cmds, current_t, current_tempo, current_state,
                   current_pulse_start, pulses, ticks_per_beat, run, first_pulses,
                   wav_error, wavVars>>

\* The next command of a stream that is not fixed in advance.
ForCmd == \E c \in Commands : nCmds < MaxCmds /\ TakeCmd(c)

\* The next command of the list cmds.
ForReplayCmd == nCmds < Len(cmds) /\ TakeCmd(cmds[nCmds + 1])

\* Lines 108-113: one iteration of the while loop.
Advance ==
    /\ pc = "while"
    /\ current_t < cmd_t
    /\ \E ups \in BOOLEAN \X BOOLEAN :
          LET next_timer_change == Min(next_change(timers[1]), next_change(timers[2]))
          IN  IF next_timer_change < cmd_t
              THEN update_state(timers, next_timer_change, ups)
              ELSE update_state(timers, cmd_t, ups)
    /\ UNCHANGED <<call, nCalls, pc, cmds, cmd, nCmds, cmd_t, last_cmd_t,
                   current_tempo, ticks_per_beat, run, first_pulses, wav_error, wavVars>>

\* Lines 114-122: the timers after the command's own effect.
apply_cmd(tms, c) ==
    CASE c.type = "note_off" -> [tms EXCEPT ![c.timer] = set_off(@)]
      [] c.type = "both_off" -> <<set_off(tms[1]), set_off(tms[2])>>
      [] c.type = "note_on"  -> [tms EXCEPT ![c.timer] = set_note(@, c.note, c.volume)]
      [] OTHER -> tms

\* Lines 114-123: the while loop is over; the command is applied and the
\* state updated at the command's time.
ApplyCmd ==
    /\ pc = "while"
    /\ ~(current_t < cmd_t)
    /\ current_tempo' = IF cmd.type \in {"begin_program", "set_tempo"}
                        THEN cmd.tempo ELSE current_tempo
    /\ \E ups \in BOOLEAN \X BOOLEAN : update_state(apply_cmd(timers, cmd), cmd_t, ups)
    /\ pc' = "for"
    /\ UNCHANGED <<call, nCalls, cmds, cmd, nCmds, cmd_t, last_cmd_t,
                   ticks_per_beat, run, first_pulses, wav_error, wavVars>>

\* Line 125: return pulses.
ReturnPulses ==
    /\ pc' = "returned"
    /\ UNCHANGED <<timerVars, cmds, cmd, nCmds, cmd_t, last_cmd_t, current_t,
                   current_tempo, current_state, current_pulse_start, pulses,
                   ticks_per_beat, run, first_pulses, wav_error, wavVars>>

\* The stream ends (after any number of commands).
Return == pc = "for" /\ ReturnPulses

\* The list cmds is exhausted.
ReplayReturn == pc = "for" /\ nCmds = Len(cmds) /\ ReturnPulses

---------------------------------------------------------------------------
(* generate_wav, lines 158-164: after generate_logic_signal has returned,   *)
(* the report reads logic_pulses[-1][-1]; on an empty list that raises      *)
(* IndexError, which nothing catches.  Otherwise the sampling loop starts   *)
(* FIRST_PULSE_ON_TIME before time 0 at the first pulse.                    *)

\* 1.0 second, in time units.
FIRST_PULSE_ON_TIME == ARDUINO_FREQ * TimeRes

LAST_PULSE_OFF_TIME == ARDUINO_FREQ * TimeRes


WavReport ==
    /\ pc = "returned"
    /\ IF Len(pulses) = 0
       THEN /\ wav_error' = "IndexError"
            /\ pc' = "raised"
            /\ UNCHANGED wavVars
       ELSE /\ wav_error' = wav_error
            /\ pc' = "sampling"
            /\ sample_t' = -FIRST_PULSE_ON_TIME
            /\ pulse_idx' = 0
            /\ wav_volume' = wav_volume
    /\ UNCHANGED <<timerVars, cmds, cmd, nCmds, cmd_t, last_cmd_t, current_t,
                   current_tempo, current_state, current_pulse_start, pulses,
                   ticks_per_beat, run, first_pulses>>

Init ==
    /\ timers = ArduinoTimers
    /\ call = NoCall(1)
    /\ nCalls = 0
    /\ pc = "for"
    /\ cmds = << >>
    /\ SignalEntry
    /\ ticks_per_beat \in TicksPerBeat
    /\ run = 1
    /\ first_pulses = << >>
    /\ wav_error = "none"
    /\ WavEntry

Next == ForCmd \/ Advance \/ ApplyCmd \/ Return \/ WavReport

\* One conversion by generate_wav in a fresh process.
Spec == Init /\ [][Next]_vars

---------------------------------------------------------------------------
(* generate_logic_signal called twice in one process on the same commands:  *)
(* Timer1 and Timer2 are module globals (lines 76-78) and keep their state. *)

CommandLists == UNION {[1..n -> Commands] : n \in 0..MaxReplayCmds}

ReplayInit ==
    /\ timers = ArduinoTimers
    /\ call = NoCall(1)
    /\ nCalls = 0
    /\ pc = "for"
    /\ cmds \in CommandLists
    /\ SignalEntry
    /\ ticks_per_beat \in TicksPerBeat
    /\ run = 1
    /\ first_pulses = << >>
    /\ wav_error = "none"
    /\ WavEntry

\* The second call: the locals are initialised again, the timers are not.
CallAgain ==
    /\ pc = "returned"
    /\ run = 1
    /\ run' = 2
    /\ first_pulses' = pulses
    /\ pc' = "for"
    /\ cmd' = NoCmd
    /\ nCmds' = 0
    /\ cmd_t' = 0
    /\ last_cmd_t' = 0
    /\ current_t' = 0
    /\ current_tempo' = 0
    /\ current_state' = TRUE
    /\ current_pulse_start' = 0
    /\ pulses' = << >>
    /\ UNCHANGED <<timerVars, cmds, ticks_per_beat, wav_error, wavVars>>

ReplayNext == ForReplayCmd \/ Advance \/ ApplyCmd \/ ReplayReturn \/ CallAgain

SpecReplay == ReplayInit /\ [][ReplayNext]_vars

---------------------------------------------------------------------------
(* A held note: the stream sets the tempo and turns one note on at time 0,  *)
(* and its only other event is a later one that does not touch the timers.  *)

HeldStreams ==
    {<<b, [type |-> "note_on", time |-> 0, tempo |-> 0, timer |-> i, note |-> n, volume |-> v], e>> :
        b \in {c \in Commands : c.type = "begin_program" /\ c.time = 0},
        i \in 1..2, n \in DriverNotes, v \in DriverVolumes,
        e \in {c \in Commands : c.type \in {"begin_program", "set_tempo"} /\ c.time > 0}}

HeldInit ==
    /\ timers = ArduinoTimers
    /\ call = NoCall(1)
    /\ nCalls = 0
    /\ pc = "for"
    /\ cmds \in HeldStreams
    /\ SignalEntry
    /\ ticks_per_beat \in TicksPerBeat
    /\ run = 1
    /\ first_pulses = << >>
    /\ wav_error = "none"
    /\ WavEntry

HeldNext == ForReplayCmd \/ Advance \/ ApplyCmd \/ ReplayReturn

SpecHeld == HeldInit /\ [][HeldNext]_vars

---------------------------------------------------------------------------
(* Both timers sounding: the stream sets the tempo and a note on timer 1 at *)
(* time 0, then a note on timer 2 at any time, then a later event of any    *)
(* kind.  The program is sequential: an iteration of the while loop that    *)
(* can run does run (weak fairness of Advance).                             *)

LoopStreams ==
    {<<b, n1, n2, e>> :
        b \in {c \in Commands : c.type = "begin_program" /\ c.time = 0},
        n1 \in {c \in Commands : c.type = "note_on" /\ c.timer = 1 /\ c.time = 0},
        n2 \in {c \in Commands : c.type = "note_on" /\ c.timer = 2},
        e \in {c \in Commands : c.time > 0}}

LoopInit ==
    /\ timers = ArduinoTimers
    /\ call = NoCall(1)
    /\ nCalls = 0
    /\ pc = "for"
    /\ cmds \in LoopStreams
    /\ SignalEntry
    /\ ticks_per_beat \in TicksPerBeat
    /\ run = 1
    /\ first_pulses = << >>
    /\ wav_error = "none"
    /\ WavEntry

LoopNext == ForReplayCmd \/ Advance \/ ApplyCmd \/ ReplayReturn

SpecLoop == LoopInit /\ [][LoopNext]_vars /\ WF_vars(Advance)

---------------------------------------------------------------------------
(* envelope and the sampling loop of generate_wav, lines 128-146, 165-180.  *)

\* PULSE_INIT = 0.0
PULSE_INIT == 0

\* PULSE_MAX = 32767.0
PULSE_MAX == 32767

ENERGY_TRANSFER_HALF_CYCLES == 8

ENERGY_TRANSFER_TIME == ENERGY_TRANSFER_HALF_CYCLES * HALF_CYCLE_LENGTH

\* 1 / ENERGY_TRANSFER_SPARK_DECAY (0.5).
SPARK_DECAY_DIV == 2

\* 1 / ENERGY_TRANSFER_EXPONENTIAL_DECAY_START (0.1).
DECAY_START_DIV == 10

\* int(min(PULSE_INIT + PULSE_SLOPE * dt, PULSE_MAX)) for dt >= 0, where
\* PULSE_SLOPE = PULSE_MAX / MAX_HALF_CYCLES / HALF_CYCLE_LENGTH.
Ramp(dt) ==
    IF dt >= MAX_PULSE_LENGTH
    THEN PULSE_MAX
    ELSE Min(PyInt(PULSE_INIT * MAX_PULSE_LENGTH + PULSE_MAX * dt, MAX_PULSE_LENGTH),
             PULSE_MAX)

\* int(pulse_volume * cos_factor * decay_factor), lines 138-144, for a whole
\* number n of transfer_cycles: decay_factor is 1 / SPARK_DECAY_DIV ^ n;
\* once it is below 1 / DECAY_START_DIV, cos_factor = abs(cos(pi * n / 2))
\* is 1.0 for even n and of the order of 1e-16 for odd n, which int() takes
\* to 0.  From n = 16 on the product of a 16-bit pulse_volume is below 1.
\* (Exact arithmetic: where the exact product is a whole number, the
\* program's floating-point product can fall just below it.)
Decayed(pulse_volume, n) ==
    IF n > 15
    THEN 0
    ELSE IF SPARK_DECAY_DIV ^ n > DECAY_START_DIV /\ n % 2 = 1
         THEN 0
         ELSE PyInt(pulse_volume, SPARK_DECAY_DIV ^ n)

\* The sample times for which the model's arithmetic holds envelope's
\* decay exactly: whole transfer cycles after the pulse's end.
EnvelopeOnGrid(t, p_start, p_end) ==
    p_end < t => (t - p_end) % ENERGY_TRANSFER_TIME = 0

\* envelope(current_t, pulse_start, pulse_end).
RECURSIVE envelope(_, _, _)
envelope(t, p_start, p_end) ==
    IF p_end < t
    THEN LET pulse_volume == envelope(p_end, p_start, p_end)
         IN  IF pulse_volume.type = "int"
             THEN IntValue(Decayed(pulse_volume.value,
                                   (t - p_end) \div ENERGY_TRANSFER_TIME))
             ELSE TypeErrorRaised
    ELSE IF p_start < t
         THEN IntValue(Ramp(t - p_start))
         ELSE NoneValue

\* last_t = logic_pulses[-1][-1] + LAST_PULSE_OFF_TIME
last_t == Last(pulses)[2] + LAST_PULSE_OFF_TIME

\* Lines 167-169: pulse_idx after the inner while loop at sample time t
\* (pulse_idx counts from 0 as in the code, pulses from 1).
RECURSIVE SkipEnded(_, _)
SkipEnded(idx, t) ==
    IF idx + 1 < Len(pulses) /\ pulses[idx + 1][2] < t
    THEN SkipEnded(idx + 1, t)
    ELSE idx

\* Lines 170-178: the pulses (none or one) envelope is called with at
\* sample time t, pulse_idx being idx.
SamplePulse(idx, t) ==
    LET curr_pulse == pulses[idx + 1]
    IN  IF curr_pulse[1] > t
        THEN IF idx > 0 THEN <<pulses[idx]>> ELSE << >>
        ELSE <<curr_pulse>>

\* volume of lines 166-178.
SampleVolume(idx, t) ==
    LET a == SamplePulse(idx, t)
    IN  IF a = << >> THEN IntValue(0) ELSE envelope(t, a[1][1], a[1][2])

\* Whole transfer cycles after a pulse's end at which the model samples:
\* before and after decay_factor falls below the threshold, even and odd.
DecayCycles == {1, 4, 5}

\* The instants the model samples.  The program samples every
\* 1 / SAMPLE_RATE from -FIRST_PULSE_ON_TIME on, a grid that neither the
\* pulses nor the model's time units are aligned to; the model visits, in
\* ascending order, any of the instants at which the sampling changes its
\* case: the start, the inside and the end of each pulse, whole transfer
\* cycles after it, last_t and the first instant after last_t.
SampleTimes ==
    {0, last_t, last_t + 1}
    \cup UNION {{p[1], p[1] + 1, p[2]} \cup {p[2] + n * ENERGY_TRANSFER_TIME : n \in DecayCycles} :
                  p \in Range(pulses)}

\* One iteration of the sampling loop, lines 165-180.  struct.pack raises
\* struct.error for a volume of None.
Sample ==
    /\ pc = "sampling"
    /\ sample_t <= last_t
    /\ LET idx == SkipEnded(pulse_idx, sample_t)
           v == SampleVolume(idx, sample_t)
       IN  /\ pulse_idx' = idx
           /\ wav_volume' = v
           /\ IF v.type = "int"
              THEN /\ wav_error' = wav_error
                   /\ pc' = pc
                   /\ \E t \in SampleTimes :
                         /\ t > sample_t
                         /\ LET a == SamplePulse(SkipEnded(idx, t), t)
                            IN  (t <= last_t /\ a # << >>)
                                    => EnvelopeOnGrid(t, a[1][1], a[1][2])
                         /\ sample_t' = t
              ELSE /\ wav_error' = (IF v.type = "None" THEN "struct.error" ELSE "TypeError")
                   /\ pc' = "raised"
                   /\ sample_t' = sample_t
    /\ UNCHANGED <<timerVars, cmds, cmd, nCmds, cmd_t, last_cmd_t, current_t,
                   current_tempo, current_state, current_pulse_start, pulses,
                   ticks_per_beat, run, first_pulses>>

\* The sampling loop ends.
WavDone ==
    /\ pc = "sampling"
    /\ ~(sample_t <= last_t)
    /\ pc' = "done"
    /\ UNCHANGED <<timerVars, cmds, cmd, nCmds, cmd_t, last_cmd_t, current_t,
                   current_tempo, current_state, current_pulse_start, pulses,
                   ticks_per_beat, run, first_pulses, wav_error, wavVars>>

\* Streams of generate_wav: the tempo at time 0, one note-on at any time,
\* and a later event.
WavStreams ==
    {<<b, n, e>> :
        b \in {c \in Commands : c.type = "begin_program" /\ c.time = 0},
        n \in {c \in Commands : c.type = "note_on"},
        e \in {c \in Commands : c.type \in {"set_tempo", "note_off"} /\ c.time > 0}}

WavInit ==
    /\ timers = ArduinoTimers
    /\ call = NoCall(1)
    /\ nCalls = 0
    /\ pc = "for"
    /\ cmds \in WavStreams
    /\ SignalEntry
    /\ ticks_per_beat \in TicksPerBeat
    /\ run = 1
    /\ first_pulses = << >>
    /\ wav_error = "none"
    /\ WavEntry

WavNext ==
    ForReplayCmd \/ Advance \/ ApplyCmd \/ ReplayReturn \/ WavReport \/ Sample \/ WavDone

SpecWav == WavInit /\ [][WavNext]_vars

---------------------------------------------------------------------------
(* Properties. *)

\* The timer the driver calls, and that timer as it was before the last call.
Driven == timers[call.timer]

\* baseClock / (maxCounter * largestPrescaler) as the divisor of baseClock.
MinFreqDiv(tm) == tm.max * tm.prescale_values[Len(tm.prescale_values)]

(* C1: under any sequence of set_note, set_off and update calls with        *)
(* non-decreasing times on a fresh timer, each timer keeps                  *)
(* 0 <= counter < period, duty <= period and prescaler in its candidates.   *)
C1_TimerInvariants ==
    \A i \in 1..2 :
        /\ 0 <= timers[i].current
        /\ timers[i].current < timers[i].top
        /\ timers[i].duty <= timers[i].top
        /\ timers[i].prescale \in Range(timers[i].prescale_values)

\* A set_note shrank the period below the counter, and the counter was reset.
C1_Witness ==
    /\ call.op = "set_note"
    /\ call.before.current >= Driven.top
    /\ call.before.current > 0
    /\ Driven.current = 0

(* C2: the pulses are strictly time-ordered and non-overlapping: for        *)
(* consecutive pulses, p[i].start < p[i+1].start and                        *)
(* p[i].end <= p[i+1].start.                                                *)
C2_PulsesStrictlyOrdered ==
    \A i \in 1..(Len(pulses) - 1) :
        /\ pulses[i][1] < pulses[i + 1][1]
        /\ pulses[i][2] <= pulses[i + 1][1]

(* C3: every pulse has strictly positive duration, end > start.             *)
C3_PulsesPositive ==
    \A i \in 1..Len(pulses) : pulses[i][2] > pulses[i][1]

(* C4: every pulse was opened by a rising edge of the composite signal      *)
(* Timer1.current_state() or Timer2.current_state(); no pulse is emitted    *)
(* for an interval in which neither timer was high: a step that appends a   *)
(* pulse starts with the composite signal high.                             *)
C4_PulseOpenedByRisingEdge ==
    [][Len(pulses') > Len(pulses) => Energized(timers)]_vars

(* C5: a pulse is closed at a falling edge with                             *)
(* end = min(start + MAX_PULSE_LENGTH, cursor), where start is the start    *)
(* of the pulse being built; it has start <= end and                        *)
(* end - start <= MAX_PULSE_LENGTH; pulses already emitted do not change.   *)
C5_PulseLengthCapped ==
    [][Len(pulses') > Len(pulses) =>
          LET p == Last(pulses')
          IN  /\ pulses' = Append(pulses, p)
              /\ p[1] = current_pulse_start
              /\ p[2] = Min(p[1] + MAX_PULSE_LENGTH, current_t')
              /\ p[1] <= p[2]
              /\ p[2] - p[1] <= MAX_PULSE_LENGTH]_vars

\* The state at a falling edge (a timer's counter has just reached its duty)
\* that came later than MAX_PULSE_LENGTH after the pulse's start: the pulse
\* was cut to MAX_PULSE_LENGTH.
C5_Witness ==
    /\ Len(pulses) > 0
    /\ ~current_state
    /\ \E i \in 1..2 : /\ timers[i].duty > 0
                       /\ timers[i].current = timers[i].duty
                       /\ timers[i].current_t = current_t
    /\ Last(pulses)[1] = current_pulse_start
    /\ Last(pulses)[2] = current_pulse_start + MAX_PULSE_LENGTH
    /\ current_t > Last(pulses)[2]

(* C6: for a timer with a note set (0 < duty < period), after               *)
(* update(next_change()) the state is the negation of the state before,     *)
(* and after update(t) for any t strictly between last_sync_time and        *)
(* next_change() the state is unchanged.                                    *)
C6_FlipsExactlyAtNextChange ==
    LET b == call.before
    IN  (/\ call.op = "update"
         /\ 0 < b.duty
         /\ b.duty < b.top
         /\ 0 <= b.current
         /\ b.current < b.top)
        => /\ call.t = next_change(b) => timer_state(Driven) = ~timer_state(b)
           /\ (b.current_t < call.t /\ call.t < next_change(b))
                 => timer_state(Driven) = timer_state(b)

(* C7: update(t) with t < last_sync_time raises an error and leaves counter *)
(* and last_sync_time unchanged.                                            *)
C7_BackwardUpdateFailsFast ==
    (call.op = "update" /\ call.t < call.before.current_t)
        => /\ call.raised
           /\ Driven.current = call.before.current
           /\ Driven.current_t = call.before.current_t

(* C8: when generate_logic_signal yields zero pulses, generate_wav reports  *)
(* "nothing to render" and does not index the empty pulse sequence.         *)
C8_EmptyPulsesReported ==
    (Len(pulses) = 0 /\ pc \in {"raised", "sampling"})
        => /\ wav_error = "NothingToRender"
           /\ wav_error # "IndexError"

(* C9: generate_logic_signal run twice in one process on the same event     *)
(* stream returns the same pulse sequence both times.                       *)
C9_RepeatedRunIdentical ==
    (run = 2 /\ pc = "returned") => pulses = first_pulses

(* C10: set_note with a target frequency below                              *)
(* baseClock / (maxCounter * largestPrescaler) changes nothing: prescaler,  *)
(* period, duty, counter and last_sync_time are as before the call.         *)
C10_DroppedNoteIsNoOp ==
    (call.op = "set_note" /\ FreqBelow(call.note, MinFreqDiv(call.before)))
        => Driven = call.before

\* A note below the minimum frequency was set on a timer that is sounding
\* another note.
C10_Witness ==
    /\ call.op = "set_note"
    /\ FreqBelow(call.note, MinFreqDiv(call.before))
    /\ call.before.duty > 0
    /\ Driven.duty > 0

(* C11: for every note that is not dropped, some prescaler p of the         *)
(* candidate list has baseClock / (maxCounter * p) < f, set_note selects    *)
(* the smallest such p, and the period is round(baseClock / (p * f)) with   *)
(* 1 <= period <= maxCounter.                                               *)
C11_SmallestPrescalerFound ==
    LET b == call.before
        fits == {v \in Range(b.prescale_values) : FreqAbove(call.note, b.max * v)}
    IN  (call.op = "set_note" /\ ~FreqBelow(call.note, MinFreqDiv(b)))
        => /\ fits # {}
           /\ Driven.prescale \in fits
           /\ \A v \in fits : Driven.prescale <= v
           /\ Driven.top = PyRound(get_midi_period(call.note),
                                   PeriodScale * Driven.prescale)
           /\ 1 <= Driven.top
           /\ Driven.top <= b.max

\* A note was set for which a prescaler in the middle of the list was
\* selected: smaller ones are too small, larger ones would do as well.
C11_Witness ==
    /\ call.op = "set_note"
    /\ ~FreqBelow(call.note, MinFreqDiv(call.before))
    /\ \E v \in Range(Driven.prescale_values) :
          v < Driven.prescale /\ ~FreqAbove(call.note, Driven.max * v)
    /\ \E v \in Range(Driven.prescale_values) :
          v > Driven.prescale /\ FreqAbove(call.note, Driven.max * v)

(* C12: after a set_note that is not dropped, for every intensity >= 0     *)
(* duty >= 1 tick; every intensity >= MAX_HALF_CYCLES gives the duty of     *)
(* intensity MAX_HALF_CYCLES; and the on-time duty * prescaler exceeds      *)
(* MAX_PULSE_LENGTH only through the clamp to one tick, hence by less than  *)
(* one tick.                                                                *)
C12_DutyClampedAndCapped ==
    LET b == call.before
        tick == Driven.prescale * TimeRes
    IN  (call.op = "set_note" /\ call.volume >= 0 /\ ~FreqBelow(call.note, MinFreqDiv(b)))
        => /\ Driven.duty >= 1
           /\ call.volume >= MAX_HALF_CYCLES
                 => Driven.duty = set_note(b, call.note, MAX_HALF_CYCLES).duty
           /\ Driven.duty * tick > MAX_PULSE_LENGTH => Driven.duty = 1
           /\ Driven.duty * tick < MAX_PULSE_LENGTH + tick

\* A note was set with an intensity above MAX_HALF_CYCLES on a prescaler
\* whose tick is longer than MAX_PULSE_LENGTH: the duty is the clamp's one
\* tick.
C12_Witness ==
    /\ call.op = "set_note"
    /\ ~FreqBelow(call.note, MinFreqDiv(call.before))
    /\ call.volume > MAX_HALF_CYCLES
    /\ Driven.duty = 1
    /\ Driven.prescale * TimeRes > MAX_PULSE_LENGTH

(* C13: set_off() sets duty = 0 and leaves period, prescaler, counter and   *)
(* last_sync_time unchanged; from then on (duty stays 0 until the next      *)
(* set_note that is not dropped) current_state() is false after every       *)
(* update.                                                                  *)
C13_SetOffSilences ==
    /\ call.op = "set_off" => Driven = [call.before EXCEPT !.duty = 0]
    /\ (call.op = "update" /\ Driven.duty = 0) => ~timer_state(Driven)

\* A timer that had a note set (its period is no longer the initial one)
\* and was then set off has been updated over more than one tick.
C13_Witness ==
    /\ call.op = "update"
    /\ Driven.duty = 0
    /\ Driven.top < Driven.max
    /\ Driven.current # call.before.current
    /\ ~timer_state(Driven)

\* The command just taken has the timestamp of the cursor: its delta is 0.
SameTimestamp(c) == CmdDeltaNum(c, current_tempo) = 0

(* C14: an event whose time equals the cursor is processed without moving   *)
(* the cursor: when it is taken the inner loop's condition is false, and    *)
(* when it is applied the cursor stays, both timers are exactly what the    *)
(* event's own effect makes of them (the update adds zero ticks), and the   *)
(* tracked composite state and the pulses change only if that effect        *)
(* changed the composite signal.                                            *)
C14_SameTimestampOnlyEventEffect ==
    [][/\ (pc = "for" /\ pc' = "while" /\ SameTimestamp(cmd'))
            => ~(current_t' < cmd_t')
       /\ (pc = "while" /\ pc' = "for" /\ SameTimestamp(cmd))
            => /\ current_t' = current_t
               /\ timers' = apply_cmd(timers, cmd)
               /\ Energized(timers') = Energized(timers)
                     => UNCHANGED <<current_state, current_pulse_start, pulses>>]_vars

\* The part of C14 on the cursor and the timers alone.
C14_SameTimestampTimersOnly ==
    [][/\ (pc = "for" /\ pc' = "while" /\ SameTimestamp(cmd'))
            => ~(current_t' < cmd_t')
       /\ (pc = "while" /\ pc' = "for" /\ SameTimestamp(cmd))
            => /\ current_t' = current_t
               /\ timers' = apply_cmd(timers, cmd)]_vars

\* The stream is a held note on a timer that does not drop its pitch, and
\* the run lasted longer than MAX_PULSE_LENGTH.
HeldNoteRun ==
    /\ cmds \in HeldStreams
    /\ ~NoteDropped(ArduinoTimers[cmds[2].timer], cmds[2].note)
    /\ pc = "returned"
    /\ current_t > MAX_PULSE_LENGTH

(* C15: a single note-on at time 0 that is held with no note-off for the    *)
(* rest of the run, followed only by later events that do not touch the     *)
(* timers, produces a pulse of exactly MAX_PULSE_LENGTH, for either timer,  *)
(* every intensity and every pitch that is not dropped.                     *)
C15_HeldNotePulseIsMax ==
    HeldNoteRun => \E k \in 1..Len(pulses) : pulses[k][2] - pulses[k][1] = MAX_PULSE_LENGTH

\* The held-note runs in which some pulse has exactly MAX_PULSE_LENGTH.
C15_SomeHeldNoteAtMax ==
    HeldNoteRun /\ \E k \in 1..Len(pulses) : pulses[k][2] - pulses[k][1] = MAX_PULSE_LENGTH

\* The boundary the counter of tm meets next: duty while the output is
\* high, the period while it is low.
NextBoundary(tm) == IF tm.current < tm.duty THEN tm.duty ELSE tm.top

\* The counter of after is the counter of before moved forward, at most up
\* to the next boundary, where reaching the period wraps to 0.
StopsAtBoundary(before, after) ==
    \E k \in 0..(NextBoundary(before) - before.current) :
        after.current = (IF before.current + k = before.top THEN 0 ELSE before.current + k)

(* C16: while the cursor is behind the event's time, each step moves the    *)
(* cursor to exactly min(timer1.next_change(), timer2.next_change(),        *)
(* event_time) and updates both timers at that instant; the cursor does not *)
(* decrease and passes no boundary of either timer (each counter moves at   *)
(* most to its next boundary, so no transition is skipped and the counter   *)
(* wraps at most once per step); the event is applied only when the cursor  *)
(* equals the event's time.                                                 *)
C16_CursorStopsAtEveryBoundary ==
    [][/\ (pc = "while" /\ current_t < cmd_t)
            => /\ current_t' = Min(Min(next_change(timers[1]), next_change(timers[2])), cmd_t)
               /\ current_t' >= current_t
               /\ pc' = "while"
               /\ \A i \in 1..2 :
                     /\ timers'[i].current_t = current_t'
                     /\ current_t' <= timers[i].current_t
                                       + (NextBoundary(timers[i]) - timers[i].current)
                                         * timers[i].prescale * TimeRes
                     /\ StopsAtBoundary(timers[i], timers'[i])
       /\ (pc = "while" /\ pc' = "for")
            => current_t = cmd_t /\ current_t' = cmd_t]_vars

\* The cursor has stopped before the event's time on the falling boundary
\* of timer 1 while timer 2, which sounds a note too, is inside its period.
C16_Witness ==
    /\ pc = "while"
    /\ current_t < cmd_t
    /\ current_t > 0
    /\ timers[1].duty > 0
    /\ timers[1].current = timers[1].duty
    /\ timers[1].current_t = current_t
    /\ timers[2].duty > 0
    /\ timers[2].current > 0
    /\ timers[2].current # timers[2].duty
    /\ timers[2].current_t = current_t

(* C17: for every sample time and pulse that the sampling loop of          *)
(* generate_wav passes to envelope (pulse start <= sample time), envelope   *)
(* returns a defined integer: the ramp value for start <= t <= end, and     *)
(* for t > end the decayed ramp value at end; this includes t = start and   *)
(* pulses with start = end.                                                 *)
C17_EnvelopeDefined ==
    [][(pc = "sampling" /\ sample_t <= last_t)
          => LET a == SamplePulse(SkipEnded(pulse_idx, sample_t), sample_t)
                 start == a[1][1]
                 end == a[1][2]
             IN  a # << >>
                 => /\ start <= sample_t
                    /\ wav_volume'.type = "int"
                    /\ sample_t <= end
                          => wav_volume'.value = Ramp(sample_t - start)
                    /\ sample_t > end
                          => wav_volume'.value =
                                Decayed(Ramp(end - start),
                                        (sample_t - end) \div ENERGY_TRANSFER_TIME)]_vars

\* envelope has returned the ramp value inside a pulse and, later, a
\* decayed value after it.
C17_RampAndDecaySampled ==
    /\ pc = "sampling"
    /\ pulse_idx > 0
    /\ sample_t > pulses[pulse_idx + 1][2]
    /\ wav_volume.type = "int"
    /\ wav_volume.value > 0
    /\ wav_volume.value < PULSE_MAX

(* C18: splitting a time advance does not change the timer: for times      *)
(* t0 <= t1 <= t2, t0 being last_sync_time, update(t1) followed by          *)
(* update(t2) leaves the counter that update(t2) alone leaves (whichever    *)
(* way an exact tie of the single update is rounded); no ticks are lost or  *)
(* gained.                                                                  *)
C18_SplitUpdateSameCounter ==
    [][(/\ call.op = "update"
        /\ call'.op = "update"
        /\ nCalls' = nCalls + 1
        /\ call.before.current_t <= call.t
        /\ call.t <= call'.t)
          => \E up \in BOOLEAN :
                timers'[call.timer].current = update(call.before, call'.t, up).current]_vars

\* The while loop's condition holds: the cursor is behind the command.
Behind == pc = "while" /\ current_t < cmd_t

(* C19: generate_logic_signal terminates: in the loop                      *)
(* 'while current_t < cmd_t' next_change() of each timer is strictly later  *)
(* than its last_sync_time, which is the cursor, and every iteration        *)
(* strictly increases the cursor without passing the command's time; so     *)
(* the loop ends with the cursor at the command's time, where the command   *)
(* is applied.                                                              *)
C19_LoopTerminates ==
    /\ [][Behind => /\ \A i \in 1..2 : /\ timers[i].current_t = current_t
                                        /\ next_change(timers[i]) > timers[i].current_t
                     /\ current_t' > current_t
                     /\ current_t' <= cmd_t]_vars
    /\ Behind ~> (pc = "while" /\ current_t = cmd_t)

\* The cursor has reached the time of the last command over several
\* iterations, with both timers sounding and pulses closed on the way.
C19_Witness ==
    /\ pc = "while"
    /\ ~(current_t < cmd_t)
    /\ cmd_t > 0
    /\ nCmds = Len(cmds)
    /\ timers[1].duty > 0
    /\ timers[2].duty > 0
    /\ Len(pulses) >= 3
    /\ Last(pulses)[1] > 0

(* C20: the returned pulse sequence collects every energized interval of   *)
(* the run, including one that is still energized when the last event has  *)
(* been applied: every rising edge has its pulse appended, so at the return *)
(* no interval is left open (the composite signal is not high with its      *)
(* pulse still being built).                                                *)
C20_NoOpenIntervalAtReturn ==
    pc = "returned" => ~(current_state /\ Energized(timers))

===========================================================================
